---- MODULE Spec2Model ----
(***************************************************************************)
(* Job lifecycle of the speed-reading video service: the file-based        *)
(* JobManager (backend/services/job_manager.py), the background worker     *)
(* process_video_job (backend/workers/background.py) and the create_job    *)
(* route (backend/routes/jobs.py); and, called on their own, the word and  *)
(* pacing functions of the pipeline (speedreading.py).                     *)
(*                                                                         *)
(* Every access to a stored file (exists, open, unlink, flock) is one      *)
(* step, so that concurrent JobManager operations interleave as threads    *)
(* of the service do.  Two accesses are joined into one step only where    *)
(* the second cannot be told apart by any other thread: the release of     *)
(* the FileLock follows the last access made under it.                     *)
(***************************************************************************)
EXTENDS Integers, Sequences, FiniteSets, TLC

\* ------------------------------------------------------------------ bounds
MaxJobs    == 1   \* job ids that Submit may mint
MaxClients == 1   \* concurrent API callers of get_job / delete_job
MaxCallers == 2   \* API callers there are; those past MaxClients only delete
MaxChunks  == 2   \* most files one chunked generation emits
MaxWords   == 1   \* most words a document holds
ClipSeconds == 1  \* duration VideoFileClip reports for one file
MaxTokenLen   == 7    \* most characters of a word (7 reaches the third table row)
MaxTotalWords == 215  \* most words of a schedule (a tenth of 215 is 21.5)
MaxRampWords  == 8    \* largest ramp_words passed explicitly (7 and 8 pass step 6)
MaxChunkWords == 4    \* most words of a chunked generation
MaxWordTicks  == 3    \* longest display duration of a word, in ticks
MaxChunkTicks == 3    \* longest chunk_duration, in ticks (the shortest is 2)

Jobs    == 1..MaxJobs
Clients == 1..MaxClients
Callers == 1..MaxCallers
Procs   == ({"w"} \X Jobs) \cup ({"c"} \X Callers)
W(j)    == <<"w", j>>
C(c)    == <<"c", c>>

\* ------------------------------------------------------------ data model
None    == <<>>
Some(v) == <<v>>
Now     == "utcnow"

\* A file of the jobs directory: absent, created but still empty
\* (open(path, 'w') before the data is flushed), or holding a JSON record.
Absent  == [file |-> "absent"]
Partial == [file |-> "empty"]
IsJson(r) == r # Absent /\ r # Partial

\* models.py JobStatus
PENDING    == "pending"
PROCESSING == "processing"
COMPLETED  == "completed"
FAILED     == "failed"
JobStatus  == {PENDING, PROCESSING, COMPLETED, FAILED}

\* file_handler.py
ALLOWED_EXTENSIONS == {".pdf", ".epub", ".txt"}

\* str.lower() on the suffixes the model submits
Lower(s) == CASE s = ".PDF" -> ".pdf"
              [] s = ".TXT" -> ".txt"
              [] OTHER      -> s

\* Uploaded file names, as Path(filename) splits them: stem and suffix.
FileNames == { [stem |-> "doc", suffix |-> ".PDF"],
               [stem |-> "doc", suffix |-> ".exe"],
               [stem |-> "doc", suffix |-> ""] }

validate_file_anysuffix(filename) == filename.suffix # ""

\* validate_file: raises HTTPException(400) unless the lowered suffix is allowed
validate_file(filename) == Lower(filename.suffix) \in ALLOWED_EXTENSIONS

\* models.py VideoParams: the fields the pipeline branches on; the others
\* keep their defaults.
DefaultParams == [start_wpm |-> 200, peak_wpm |-> 600, ramp_style |-> "smooth",
                  chunk_duration |-> None, show_wpm |-> TRUE]
RampStyle == {"smooth", "linear", "stepped"}

\* The params form field: a JSON object (here already as a dict of the
\* fields it sets) or text that json.loads rejects.
NotJson == [json |-> FALSE]
RawParams == { [json |-> TRUE, set |-> [show_wpm |-> TRUE]],
               [json |-> TRUE, set |-> [chunk_duration |-> Some(10)]],
               [json |-> TRUE, set |-> [chunk_duration |-> Some(4)]],
               [json |-> TRUE, set |-> [start_wpm |-> 49]],
               [json |-> TRUE, set |-> [ramp_style |-> "bogus"]],
               NotJson }

Merge(d, updates) ==
  [f \in (DOMAIN d) \cup (DOMAIN updates) |->
      IF f \in DOMAIN updates THEN updates[f] ELSE d[f]]

\* VideoParams(**params_dict): the field constraints of models.py
VideoParamsValid(p) ==
  /\ p.start_wpm \in 50..1000
  /\ p.peak_wpm \in 100..2000
  /\ p.ramp_style \in RampStyle
  /\ p.chunk_duration # None => (p.chunk_duration[1] >= 5 /\ p.chunk_duration[1] <= 300)

\* json.loads(params) then VideoParams(**params_dict), both inside the try
ParamsAccepted(raw) == raw.json /\ VideoParamsValid(Merge(DefaultParams, raw.set))
video_params(raw)   == Merge(DefaultParams, raw.set)

\* ------------------------------------------------------------- variables
VARIABLES
  nextId,    \* job ids minted so far (create_job mints nextId + 1)
  pending,   \* the Submit between save_upload and initialize_job, or None
  audit,     \* whether Submit requests are being recorded in lastSubmit
  lastSubmit,\* the last Submit recorded: its file name, params and answer
  record,    \* record[j]: the file storage/jobs/{j}.json
  lockfile,  \* lockfile[j]: storage/jobs/{j}.lock exists
  upload,    \* upload[j]: the uploaded source of job j exists
  outdir,    \* outdir[j]: the directory storage/outputs/{j} exists
  outfiles,  \* outfiles[j]: the video files in it
  pc,        \* pc[p]: [site, step] of worker or client p
  held,      \* held[p]: "no", or the flock p holds, on the inode the lock
             \* path still names ("linked") or on an unlinked one
  jd,        \* jd[p]: job_data / JobResponse local to p's current call
  wparams,   \* worker: job.params as get_job returned them
  words,     \* worker: len(words)
  files,     \* worker: output_filenames
  total,     \* worker: total_duration
  err,       \* worker: str(e) of the exception caught, or None
  cjob,      \* client: the job id its call names
  cres,      \* client: what its last call returned
  prev,      \* history: the record last written for j
  seen,      \* history: the statuses ever written for j
  events,    \* history: the stages and update_job calls worker j has run
  raisedAt,  \* history: Len(events[j]) when its exception was raised, or 0
  calc       \* a call of one of speedreading.py's functions: its arguments
             \* and, once it has returned or raised, its result

store  == <<record, lockfile, upload, outdir, outfiles>>
wlocal == <<wparams, words, files, total, err>>
hist   == <<prev, seen, events, raisedAt>>
vars   == <<nextId, pending, audit, lastSubmit, record, lockfile, upload, outdir, outfiles, pc,
           held, jd, wparams, words, files, total, err, cjob, cres,
           prev, seen, events, raisedAt, calc>>

At(site, step) == [site |-> site, step |-> step]
Idle == At("idle", "none")

Setup ==
  /\ nextId = 0
  /\ lastSubmit = None
  /\ pending = None
  /\ record = [j \in Jobs |-> Absent]
  /\ lockfile = [j \in Jobs |-> FALSE]
  /\ upload = [j \in Jobs |-> FALSE]
  /\ outdir = [j \in Jobs |-> FALSE]
  /\ outfiles = [j \in Jobs |-> {}]
  /\ pc = [p \in Procs |-> Idle]
  /\ held = [p \in Procs |-> "no"]
  /\ jd = [p \in Procs |-> Absent]
  /\ wparams = [j \in Jobs |-> None]
  /\ words = [j \in Jobs |-> 0]
  /\ files = [j \in Jobs |-> << >>]
  /\ total = [j \in Jobs |-> 0]
  /\ err = [j \in Jobs |-> None]
  /\ cjob = [c \in Callers |-> 1]
  /\ cres = [c \in Callers |-> "-"]
  /\ prev = [j \in Jobs |-> Absent]
  /\ seen = [j \in Jobs |-> {}]
  /\ events = [j \in Jobs |-> << >>]
  /\ raisedAt = [j \in Jobs |-> 0]

\* No function of speedreading.py is being called on its own.
NoCall == [fn |-> "none"]

Init      == Setup /\ audit = FALSE /\ calc = NoCall
InitAudit == Setup /\ audit = TRUE /\ calc = NoCall

\* ------------------------------------------------------------ JobManager
JobPathExists_lockpath(j) == lockfile[j]

\* Path.exists() on the record file
JobPathExists(j) == record[j] # Absent

LockTarget(p) == IF p[1] = "w" THEN p[2] ELSE cjob[p[2]]

\* FileLock.acquire: open(lock_path, O_CREAT) and flock it; blocks while
\* another descriptor holds the flock of the same inode.
LockFree(j) == \A q \in Procs : ~(held[q] = "linked" /\ LockTarget(q) = j)
Acquire(p, j) ==
  /\ LockFree(j)
  /\ held' = [held EXCEPT ![p] = "linked"]
  /\ lockfile' = [lockfile EXCEPT ![j] = TRUE]
Release(p) == held' = [held EXCEPT ![p] = "no"]

\* str(e) of what open(job_path, 'r') / json.load raise
ReadError(j) == IF record[j] = Absent THEN "FileNotFoundError" ELSE "JSONDecodeError"

\* initialize_job: the initial record
InitialRecord(job_id, filename, upload_path, params) ==
  [ id |-> job_id,
    status |-> PENDING,
    filename |-> filename,
    upload_path |-> upload_path,
    params |-> params,
    created_at |-> Now,
    started_at |-> None,
    completed_at |-> None,
    progress_percent |-> 0,
    current_step |-> "Queued",
    total_words |-> None,
    processed_words |-> None,
    output_files |-> << >>,
    error_message |-> None,
    video_duration_seconds |-> None ]

\* _to_response: the JobResponse of a stored dict (it has no upload_path)
ToResponse(job_data) == [f \in (DOMAIN job_data) \ {"upload_path"} |-> job_data[f]]

\* A record that reaches the file is the one later reads see.
Stored(j, r) ==
  /\ prev' = [prev EXCEPT ![j] = r]
  /\ seen' = [seen EXCEPT ![j] = @ \cup {r.status}]

\* get_job_data, one file access per step.  out is the next step of the
\* call, or its result: "none" (returns None), "ok", "raise".
get_job_data(p, j, step, out) ==
  \/ /\ step = "exists" /\ ~JobPathExists(j) /\ out = "none"
     /\ UNCHANGED <<record, lockfile, held, jd>>
  \/ /\ step = "exists" /\ JobPathExists(j) /\ out = "lock"
     /\ UNCHANGED <<record, lockfile, held, jd>>
  \/ /\ step = "lock" /\ Acquire(p, j) /\ out = "read"
     /\ UNCHANGED <<record, jd>>
  \/ /\ step = "read" /\ IsJson(record[j]) /\ out = "ok"
     /\ jd' = [jd EXCEPT ![p] = record[j]]
     /\ Release(p)
     /\ UNCHANGED <<record, lockfile>>
  \/ /\ step = "read" /\ ~IsJson(record[j]) /\ out = "raise"
     /\ Release(p)
     /\ UNCHANGED <<record, lockfile, jd>>

\* get_job: as get_job_data, returning the JobResponse
get_job(p, j, step, out) ==
  \/ /\ step = "exists" /\ ~JobPathExists(j) /\ out = "none"
     /\ UNCHANGED <<record, lockfile, held, jd>>
  \/ /\ step = "exists" /\ JobPathExists(j) /\ out = "lock"
     /\ UNCHANGED <<record, lockfile, held, jd>>
  \/ /\ step = "lock" /\ Acquire(p, j) /\ out = "read"
     /\ UNCHANGED <<record, jd>>
  \/ /\ step = "read" /\ IsJson(record[j]) /\ out = "ok"
     /\ jd' = [jd EXCEPT ![p] = ToResponse(record[j])]
     /\ Release(p)
     /\ UNCHANGED <<record, lockfile>>
  \/ /\ step = "read" /\ ~IsJson(record[j]) /\ out = "raise"
     /\ Release(p)
     /\ UNCHANGED <<record, lockfile, jd>>

\* update_job(job_id, **updates).  open(job_path, 'w') creates or empties
\* the file; the data reaches it when the file is closed, unless the path
\* was unlinked meanwhile (the descriptor then writes an unlinked inode).
update_job(p, j, updates, step, out) ==
  \/ /\ step = "exists" /\ ~JobPathExists(j) /\ out = "none"
     /\ UNCHANGED <<record, lockfile, held, jd, prev, seen>>
  \/ /\ step = "exists" /\ JobPathExists(j) /\ out = "lock"
     /\ UNCHANGED <<record, lockfile, held, jd, prev, seen>>
  \/ /\ step = "lock" /\ Acquire(p, j) /\ out = "read"
     /\ UNCHANGED <<record, jd, prev, seen>>
  \/ /\ step = "read" /\ IsJson(record[j]) /\ out = "open"
     /\ jd' = [jd EXCEPT ![p] = Merge(record[j], updates)]
     /\ UNCHANGED <<record, lockfile, held, prev, seen>>
  \/ /\ step = "read" /\ ~IsJson(record[j]) /\ out = "raise"
     /\ Release(p)
     /\ UNCHANGED <<record, lockfile, jd, prev, seen>>
  \/ /\ step = "open" /\ out = "write"
     /\ record' = [record EXCEPT ![j] = Partial]
     /\ UNCHANGED <<lockfile, held, jd, prev, seen>>
  \/ /\ step = "write" /\ record[j] = Partial /\ out = "ok"
     /\ record' = [record EXCEPT ![j] = jd[p]]
     /\ Stored(j, jd[p])
     /\ jd' = [jd EXCEPT ![p] = Absent]
     /\ Release(p)
     /\ UNCHANGED lockfile
  \/ /\ step = "write" /\ record[j] # Partial /\ out = "ok"
     /\ jd' = [jd EXCEPT ![p] = Absent]
     /\ Release(p)
     /\ UNCHANGED <<record, lockfile, prev, seen>>

\* delete_job, one file access per step.  Only the get_job_data it calls
\* takes the lock; the removals that follow run without it.
delete_job(p, j, step, out) ==
  \/ /\ step = "d_exists" /\ ~JobPathExists(j) /\ out = "false"
     /\ UNCHANGED <<store, held, jd>>
  \/ /\ step = "d_exists" /\ JobPathExists(j) /\ out = "exists"
     /\ UNCHANGED <<store, held, jd>>
  \/ /\ step \in {"exists", "lock", "read"}
     /\ \E o \in {"none", "ok", "raise", "lock", "read"} :
          /\ get_job_data(p, j, step, o)
          /\ out = CASE o = "none" -> "false"
                     [] o = "ok"   -> "up_exists"
                     [] OTHER      -> o
     /\ UNCHANGED <<upload, outdir, outfiles>>
  \/ /\ step = "up_exists"
     /\ out = IF upload[jd[p].upload_path.id] THEN "up_unlink" ELSE "out_exists"
     /\ UNCHANGED <<store, held, jd>>
  \/ /\ step = "up_unlink" /\ upload[jd[p].upload_path.id] /\ out = "out_exists"
     /\ upload' = [upload EXCEPT ![jd[p].upload_path.id] = FALSE]
     /\ UNCHANGED <<record, lockfile, outdir, outfiles, held, jd>>
  \/ /\ step = "up_unlink" /\ ~upload[jd[p].upload_path.id] /\ out = "raise"
     /\ UNCHANGED <<store, held, jd>>
  \/ /\ step = "out_exists"
     /\ out = IF outdir[j] THEN "rmtree" ELSE "rec_unlink"
     /\ UNCHANGED <<store, held, jd>>
  \/ /\ step = "rmtree" /\ outdir[j] /\ out = "rmdir"
     /\ outfiles' = [outfiles EXCEPT ![j] = {}]
     /\ UNCHANGED <<record, lockfile, upload, outdir, held, jd>>
  \/ /\ step = "rmtree" /\ ~outdir[j] /\ out = "raise"
     /\ UNCHANGED <<store, held, jd>>
  \/ /\ step = "rmdir" /\ outdir[j] /\ outfiles[j] = {} /\ out = "rec_unlink"
     /\ outdir' = [outdir EXCEPT ![j] = FALSE]
     /\ UNCHANGED <<record, lockfile, upload, outfiles, held, jd>>
  \/ /\ step = "rmdir" /\ ~(outdir[j] /\ outfiles[j] = {}) /\ out = "raise"
     /\ UNCHANGED <<store, held, jd>>
  \/ /\ step = "rec_unlink" /\ JobPathExists(j) /\ out = "lk_exists"
     /\ record' = [record EXCEPT ![j] = Absent]
     /\ UNCHANGED <<lockfile, upload, outdir, outfiles, held, jd>>
  \/ /\ step = "rec_unlink" /\ ~JobPathExists(j) /\ out = "raise"
     /\ UNCHANGED <<store, held, jd>>
  \/ /\ step = "lk_exists"
     /\ out = IF lockfile[j] THEN "lk_unlink" ELSE "true"
     /\ UNCHANGED <<store, held, jd>>
  \/ /\ step = "lk_unlink" /\ lockfile[j] /\ out = "true"
     /\ lockfile' = [lockfile EXCEPT ![j] = FALSE]
     /\ held' = [q \in Procs |->
                   IF held[q] = "linked" /\ LockTarget(q) = j THEN "unlinked" ELSE held[q]]
     /\ UNCHANGED <<record, upload, outdir, outfiles, jd>>
  \/ /\ step = "lk_unlink" /\ ~lockfile[j] /\ out = "raise"
     /\ UNCHANGED <<store, held, jd>>

CallOuts   == {"none", "ok", "raise", "lock", "read", "open", "write"}
DeleteOuts == {"true", "false", "raise", "exists", "lock", "read", "up_exists",
               "up_unlink", "out_exists", "rmtree", "rmdir", "rec_unlink",
               "lk_exists", "lk_unlink"}

\* -------------------------------------------------- create_job (routes)
\* The route up to its first effect: validate_file, then the params parse.
SubmitAccepted(filename, raw) == validate_file(filename) /\ ParamsAccepted(raw)

\* HTTPException(400) from validate_file or from the params try block:
\* raised before job_manager.create_job(), so nothing has been touched.
\* The Submit requests tried: each file name with the default params, and
\* each params text with an allowed file name.
Requests == {req \in FileNames \X RawParams :
               req[1].suffix = ".PDF" \/ req[2] = [json |-> TRUE, set |-> [show_wpm |-> TRUE]]}
Rejected == {req \in Requests : ~SubmitAccepted(req[1], req[2])}
Answered(filename, raw, status) ==
  lastSubmit' = IF audit THEN Some([filename |-> filename, raw |-> raw, status |-> status])
                ELSE lastSubmit
SubmitReject ==
  /\ IF audit THEN \E req \in Rejected : Answered(req[1], req[2], 400)
              ELSE Rejected # {} /\ UNCHANGED lastSubmit
  /\ UNCHANGED <<calc, nextId, pending, audit, store, pc, held, jd, cjob, cres>>
  /\ UNCHANGED <<wlocal, hist>>

\* create_job() mints the id and save_upload writes the upload.
SubmitSave ==
  /\ pending = None
  /\ nextId < MaxJobs
  /\ \E req \in Requests :
       /\ SubmitAccepted(req[1], req[2])
       /\ pending' = Some([id |-> nextId + 1, filename |-> req[1], raw |-> req[2]])
       /\ Answered(req[1], req[2], 200)
  /\ nextId' = nextId + 1
  /\ upload' = [upload EXCEPT ![nextId + 1] = TRUE]
  /\ UNCHANGED <<calc, audit, record, lockfile, outdir, outfiles, pc, held, jd, cjob, cres>>
  /\ UNCHANGED <<wlocal, hist>>

\* initialize_job writes the record under the job's lock, then the worker
\* is queued with background_tasks.add_task.
SubmitInit ==
  /\ pending # None
  /\ LET req == pending[1]
         j   == req.id
         r   == InitialRecord(j, req.filename, [id |-> j, name |-> req.filename],
                              video_params(req.raw))
     IN /\ LockFree(j)
        /\ record' = [record EXCEPT ![j] = r]
        /\ lockfile' = [lockfile EXCEPT ![j] = TRUE]
        /\ Stored(j, r)
        /\ pc' = [pc EXCEPT ![W(j)] = At("get_job", "exists")]
  /\ pending' = None
  /\ UNCHANGED <<calc, nextId, audit, lastSubmit, upload, outdir, outfiles, held, jd, cjob, cres>>
  /\ UNCHANGED <<wlocal, events, raisedAt>>

\* ----------------------------------------------------- process_video_job
\* The names of the files a generation returns, in order.
FilesOf(k) == [i \in 1..k |-> i]

MarkProcessing_restamp ==
  [status |-> "processing", created_at |-> "utcnow+1",
   current_step |-> "Extracting text from document"]
MarkProcessing_nostatus ==
  [started_at |-> Some(Now), current_step |-> "Extracting text from document"]
GeneratingFrames_low ==
  [current_step |-> "Generating video frames", progress_percent |-> 5]
MarkFailed_nostamp(e) ==
  [status |-> FAILED, error_message |-> Some(e), current_step |-> "Failed"]
MarkFailed_withfiles(e) ==
  [status |-> FAILED, completed_at |-> Some(Now), error_message |-> Some(e),
   current_step |-> "Failed", output_files |-> FilesOf(1)]
OnRaise_retry(site) == IF site = "except" THEN "crashed" ELSE site

\* Keyword arguments of the worker's update_job calls.
MarkProcessing ==
  [status |-> PROCESSING, started_at |-> Some(Now),
   current_step |-> "Extracting text from document"]
FoundWords(total_words) ==
  [total_words |-> Some(total_words),
   current_step |-> "Found words, starting video generation",
   progress_percent |-> 10]
GeneratingFrames ==
  [current_step |-> "Generating video frames", progress_percent |-> 20]
MarkCompleted(output_filenames, total_duration) ==
  [status |-> COMPLETED, completed_at |-> Some(Now), progress_percent |-> 100,
   current_step |-> "Complete", output_files |-> output_filenames,
   video_duration_seconds |-> IF total_duration > 0 THEN Some(total_duration) ELSE None]
MarkFailed(e) ==
  [status |-> FAILED, completed_at |-> Some(Now), error_message |-> Some(e),
   current_step |-> "Failed"]

NextSite_skipcomplete(site) ==
  CASE site = "get_job"  -> "mark"
    [] site = "mark"     -> "get_data"
    [] site = "get_data" -> "extract"
    [] site = "extract"  -> "upd10"
    [] site = "upd10"    -> "mkdir"
    [] site = "mkdir"    -> "upd20"
    [] site = "upd20"    -> "generate"
    [] site = "generate" -> "measure"
    [] site = "measure"  -> "done"
    [] site = "complete" -> "done"
    [] site = "except"   -> "done"

\* The statements of the try block, in program order.
CallSites == {"get_job", "mark", "get_data", "upd10", "upd20", "complete", "except"}
NextSite(site) ==
  CASE site = "get_job"  -> "mark"
    [] site = "mark"     -> "get_data"
    [] site = "get_data" -> "extract"
    [] site = "extract"  -> "upd10"
    [] site = "upd10"    -> "mkdir"
    [] site = "mkdir"    -> "upd20"
    [] site = "upd20"    -> "generate"
    [] site = "generate" -> "measure"
    [] site = "measure"  -> "complete"
    [] site = "complete" -> "done"
    [] site = "except"   -> "done"
\* except Exception: the one handler every statement of the try block reaches
OnRaise(site) == IF site = "except" THEN "crashed" ELSE "except"

Enter(site) == At(site, IF site \in CallSites THEN "exists" ELSE "none")
Goto(j, site) == pc' = [pc EXCEPT ![W(j)] = Enter(site)]
Log(j, e) == events' = [events EXCEPT ![j] = Append(@, e)]
Raise(j, site, e, n) ==
  /\ Goto(j, OnRaise(site))
  /\ err' = [err EXCEPT ![j] = Some(e)]
  /\ raisedAt' = [raisedAt EXCEPT ![j] = n]

Site(j) == pc[W(j)].site
Step(j) == pc[W(j)].step

\* job = job_manager.get_job(job_id); if not job: return
WorkerGetJob(j) ==
  /\ Site(j) = "get_job"
  /\ \E out \in CallOuts :
       /\ get_job(W(j), j, Step(j), out)
       /\ CASE out = "none"  -> /\ Goto(j, "done")
                                /\ UNCHANGED <<wparams, err, raisedAt>>
            [] out = "ok"    -> /\ Goto(j, NextSite("get_job"))
                                /\ wparams' = [wparams EXCEPT
                                                 ![j] = Some(ToResponse(record[j]).params)]
                                /\ UNCHANGED <<err, raisedAt>>
            [] out = "raise" -> /\ Raise(j, "get_job", ReadError(j), Len(events[j]))
                                /\ UNCHANGED wparams
            [] OTHER         -> /\ pc' = [pc EXCEPT ![W(j)] = At("get_job", out)]
                                /\ UNCHANGED <<wparams, err, raisedAt>>
  /\ UNCHANGED <<calc, nextId, pending, audit, lastSubmit, upload, outdir, outfiles, words, files, total,
                 cjob, cres, prev, seen, events>>

\* job_data = job_manager.get_job_data(job_id); if not job_data: return
WorkerGetData(j) ==
  /\ Site(j) = "get_data"
  /\ \E out \in CallOuts :
       /\ get_job_data(W(j), j, Step(j), out)
       /\ CASE out = "none"  -> /\ Goto(j, "done")
                                /\ UNCHANGED <<err, raisedAt>>
            [] out = "ok"    -> /\ Goto(j, NextSite("get_data"))
                                /\ UNCHANGED <<err, raisedAt>>
            [] out = "raise" -> Raise(j, "get_data", ReadError(j), Len(events[j]))
            [] OTHER         -> /\ pc' = [pc EXCEPT ![W(j)] = At("get_data", out)]
                                /\ UNCHANGED <<err, raisedAt>>
  /\ UNCHANGED <<calc, nextId, pending, audit, lastSubmit, upload, outdir, outfiles, wparams, words, files,
                 total, cjob, cres, prev, seen, events>>

Updates(j, site) ==
  CASE site = "mark"     -> MarkProcessing
    [] site = "upd10"    -> FoundWords(words[j])
    [] site = "upd20"    -> GeneratingFrames
    [] site = "complete" -> MarkCompleted(files[j], total[j])
    [] site = "except"   -> MarkFailed(err[j][1])

\* Each job_manager.update_job(job_id, ...) of the worker, the one of the
\* except block included; its return value is not looked at.
WorkerUpdate(j) ==
  /\ Site(j) \in {"mark", "upd10", "upd20", "complete", "except"}
  /\ LET site == Site(j)
         logged == IF Step(j) = "exists" THEN Append(events[j], site) ELSE events[j]
     IN
     /\ events' = [events EXCEPT ![j] = logged]
     /\ \E out \in CallOuts :
          /\ update_job(W(j), j, Updates(j, site), Step(j), out)
          /\ CASE out \in {"none", "ok"} -> /\ Goto(j, NextSite(site))
                                            /\ UNCHANGED <<err, raisedAt>>
               [] out = "raise" -> IF site = "except"
                                   THEN /\ Goto(j, OnRaise(site))
                                        /\ UNCHANGED <<err, raisedAt>>
                                   ELSE Raise(j, site, ReadError(j), Len(logged))
               [] OTHER         -> /\ pc' = [pc EXCEPT ![W(j)] = At(site, out)]
                                   /\ UNCHANGED <<err, raisedAt>>
  /\ UNCHANGED <<calc, nextId, pending, audit, lastSubmit, upload, outdir, outfiles, wparams, words, files,
                 total, cjob, cres>>

\* text = extract_text_from_file(upload_path, ...); words = tokenize_text(...)
\* The document is read from the upload; what it holds is the environment's.
WorkerExtract(j) ==
  /\ Site(j) = "extract"
  /\ Log(j, "extract")
  /\ LET path == jd[W(j)].upload_path
         n    == Len(events[j]) + 1
     IN \/ /\ upload[path.id]
           /\ \E total_words \in 0..MaxWords : words' = [words EXCEPT ![j] = total_words]
           /\ Goto(j, NextSite("extract"))
           /\ UNCHANGED <<err, raisedAt>>
        \/ /\ upload[path.id]
           /\ Raise(j, "extract", "ExtractionError", n)
           /\ UNCHANGED words
        \/ /\ ~upload[path.id]
           /\ Raise(j, "extract", "FileNotFoundError", n)
           /\ UNCHANGED words
  /\ UNCHANGED <<calc, nextId, pending, audit, lastSubmit, store, held, jd, wparams, files, total, cjob, cres,
                 prev, seen>>

\* output_dir.mkdir(parents=True, exist_ok=True)
WorkerMkdir(j) ==
  /\ Site(j) = "mkdir"
  /\ outdir' = [outdir EXCEPT ![j] = TRUE]
  /\ Goto(j, NextSite("mkdir"))
  /\ UNCHANGED <<calc, nextId, pending, audit, lastSubmit, record, lockfile, upload, outfiles, held, jd,
                 wlocal, cjob, cres, hist>>

\* generate_chunked_videos returns the files it wrote, one per chunk;
\* generate_speed_reading_video writes the single output_path.
Chunked(j) == wparams[j][1].chunk_duration # None

WorkerGenerate(j) ==
  /\ Site(j) = "generate"
  /\ Log(j, "generate")
  /\ LET most == IF Chunked(j) THEN MaxChunks ELSE 1
         n    == Len(events[j]) + 1
     IN \/ /\ words[j] = 0
           /\ Raise(j, "generate", "No words found in text", n)
           /\ UNCHANGED <<outfiles, files>>
        \/ /\ words[j] > 0 /\ outdir[j]
           /\ \E k \in 1..most :
                /\ outfiles' = [outfiles EXCEPT ![j] = @ \cup (1..k)]
                /\ files' = [files EXCEPT ![j] = FilesOf(k)]
           /\ Goto(j, NextSite("generate"))
           /\ UNCHANGED <<err, raisedAt>>
        \/ /\ words[j] > 0
           /\ \E k \in 0..(IF outdir[j] THEN most ELSE 0) :
                outfiles' = [outfiles EXCEPT ![j] = @ \cup (1..k)]
           /\ Raise(j, "generate", "EncodingError", n)
           /\ UNCHANGED files
  /\ UNCHANGED <<calc, nextId, pending, audit, lastSubmit, record, lockfile, upload, outdir, held, jd,
                 wparams, words, total, cjob, cres, prev, seen>>

\* The duration loop inside try / except Exception: pass.  measured files
\* were added to total_duration before VideoFileClip raised, if it did.
WorkerMeasure(j) ==
  /\ Site(j) = "measure"
  /\ \E measured \in 0..Len(files[j]) :
       /\ \A i \in 1..measured : outdir[j] /\ files[j][i] \in outfiles[j]
       /\ total' = [total EXCEPT ![j] = measured * ClipSeconds]
  /\ Goto(j, NextSite("measure"))
  /\ UNCHANGED <<calc, nextId, pending, audit, lastSubmit, store, held, jd, wparams, words, files, err,
                 cjob, cres, hist>>

\* ------------------------------------------------------------ API callers
ClientCall(c) ==
  /\ pc[C(c)] = Idle
  /\ \E j \in Jobs, op \in {"get_job", "delete_job"} :
       /\ pc' = [pc EXCEPT ![C(c)] = At(op, IF op = "get_job" THEN "exists" ELSE "d_exists")]
       /\ cjob' = [cjob EXCEPT ![c] = j]
  /\ cres' = [cres EXCEPT ![c] = "-"]
  /\ jd' = [jd EXCEPT ![C(c)] = Absent]
  /\ UNCHANGED <<calc, nextId, pending, audit, lastSubmit, store, held, wlocal, hist>>

\* routes/jobs.py get_job -> JobManager.get_job
ClientGetJob(c) ==
  /\ pc[C(c)].site = "get_job"
  /\ \E out \in CallOuts :
       /\ get_job(C(c), cjob[c], pc[C(c)].step, out)
       /\ IF out \in {"none", "ok", "raise"}
          THEN /\ pc' = [pc EXCEPT ![C(c)] = Idle]
               /\ cres' = [cres EXCEPT ![c] = out]
          ELSE /\ pc' = [pc EXCEPT ![C(c)] = At("get_job", out)]
               /\ UNCHANGED cres
  /\ UNCHANGED <<calc, nextId, pending, audit, lastSubmit, upload, outdir, outfiles, wlocal, cjob, hist>>

\* routes/jobs.py delete_job -> JobManager.delete_job
ClientDelete(c) ==
  /\ pc[C(c)].site = "delete_job"
  /\ \E out \in DeleteOuts :
       /\ delete_job(C(c), cjob[c], pc[C(c)].step, out)
       /\ IF out \in {"true", "false", "raise"}
          THEN /\ pc' = [pc EXCEPT ![C(c)] = Idle]
               /\ cres' = [cres EXCEPT ![c] = out]
          ELSE /\ pc' = [pc EXCEPT ![C(c)] = At("delete_job", out)]
               /\ UNCHANGED cres
  /\ UNCHANGED <<calc, nextId, pending, audit, lastSubmit, wlocal, cjob, hist>>

\* ---------------------------------------------------------- specification
Next ==
  \/ SubmitReject
  \/ SubmitSave
  \/ SubmitInit
  \/ \E j \in Jobs : WorkerGetJob(j)
  \/ \E j \in Jobs : WorkerGetData(j)
  \/ \E j \in Jobs : WorkerUpdate(j)
  \/ \E j \in Jobs : WorkerExtract(j)
  \/ \E j \in Jobs : WorkerMkdir(j)
  \/ \E j \in Jobs : WorkerGenerate(j)
  \/ \E j \in Jobs : WorkerMeasure(j)
  \/ \E c \in Clients : ClientCall(c)
  \/ \E c \in Clients : ClientGetJob(c)
  \/ \E c \in Clients : ClientDelete(c)

Spec == Init /\ [][Next]_vars

\* The same service with its Submit requests recorded.
SpecAudit == InitAudit /\ [][Next]_vars

\* ------------------------------------------------------ fair scheduling
\* One step of the thread that runs process_video_job for job j.
Worker(j) ==
  \/ WorkerGetJob(j)
  \/ WorkerGetData(j)
  \/ WorkerUpdate(j)
  \/ WorkerExtract(j)
  \/ WorkerMkdir(j)
  \/ WorkerGenerate(j)
  \/ WorkerMeasure(j)

\* The thread pool runs a queued worker and every stage returns or raises;
\* a FileLock that is released again and again is acquired in the end; a
\* request handler that has started a JobManager call finishes it.
Fairness ==
  /\ \A j \in Jobs : SF_vars(Worker(j))
  /\ \A c \in Clients : WF_vars(ClientGetJob(c) \/ ClientDelete(c))

SpecLive == Init /\ [][Next]_vars /\ Fairness

\* ------------------------------------------------- concurrent delete_job
\* A caller's one delete_job request for a job whose record exists.
ClientCallDelete(c) ==
  /\ cres[c] = "-"
  /\ ClientCall(c)
  /\ pc'[C(c)].site = "delete_job"
  /\ JobPathExists(cjob'[c])

\* A job is submitted and, before its queued worker is run, DELETE requests
\* for it arrive from every caller.
NextDeletes ==
  \/ SubmitSave
  \/ SubmitInit
  \/ \E c \in Callers : ClientCallDelete(c)
  \/ \E c \in Callers : ClientDelete(c)

SpecDeletes == Init /\ [][NextDeletes]_vars

\* ------------------------------------------------ speedreading.py: words
Min(a, b) == IF a < b THEN a ELSE b
Max(a, b) == IF a > b THEN a ELSE b

\* A word is a sequence of characters; of a character only its class
\* matters here: "a" is alphanumeric (str.isalnum), "." is not.
Chars == {"a", "."}
isalnum(c) == c = "a"
Tokens == UNION { [1..n -> Chars] : n \in 1..MaxTokenLen }

\* calculate_orp(word): the fixation table by length
calculate_orp(word) ==
  LET length == Len(word)
  IN IF length <= 1 THEN 0
     ELSE IF length <= 5 THEN 1
     ELSE IF length <= 9 THEN 2
     ELSE IF length <= 13 THEN 3
     ELSE 4

\* ''.join(c for c in word if c.isalnum())
clean_word(word) == SelectSeq(word, isalnum)

\* the loop that counts the characters before the first alphanumeric one
RECURSIVE leading_punct(_)
leading_punct(word) ==
  IF word = << >> \/ isalnum(Head(word)) THEN 0
  ELSE 1 + leading_punct(Tail(word))

\* The WordFrame generate_speed_reading_video builds for a word (its
\* duration left out): orp_index is orp + leading_punct, as computed.
WordFrame(word) ==
  LET orp == IF clean_word(word) # << >> THEN calculate_orp(clean_word(word)) ELSE 0
  IN [word |-> word, orp_index |-> orp + leading_punct(word)]

\* ------------------------------------- speedreading.py: the wpm schedule
\* A wpm value is a float in the code; here it is the exact fraction
\* <<numerator, denominator>>, denominator > 0.
Wpm(n) == <<n, 1>>
Leq(x, y) == x[1] * y[2] <= y[1] * x[2]
Same(x, y) == x[1] * y[2] = y[1] * x[2]

\* math.cos(progress * math.pi) for progress = i / ramp_words in [0, 1), as
\* the fraction <<n, d>>: Bhaskara's rational form of the cosine, which is
\* within 0.002 of it and falls from 1 to -1 as the cosine does.
Cos(i, ramp_words) ==
  LET r2 == ramp_words * ramp_words
      k  == ramp_words - i
  IN IF 2 * i <= ramp_words
     THEN <<r2 - 4 * i * i, r2 + i * i>>
     ELSE <<4 * k * k - r2, r2 + k * k>>

\* smooth: wpm = start_wpm + (peak_wpm - start_wpm) * (1 - cos) / 2
SmoothWpm(start_wpm, peak_wpm, ramp_words, i) ==
  LET c == Cos(i, ramp_words)
  IN <<start_wpm * 2 * c[2] + (peak_wpm - start_wpm) * (c[2] - c[1]), 2 * c[2]>>

\* linear: wpm = start_wpm + (peak_wpm - start_wpm) * (i / ramp_words)
LinearWpm(start_wpm, peak_wpm, ramp_words, i) ==
  <<start_wpm * ramp_words + (peak_wpm - start_wpm) * i, ramp_words>>

num_steps == 6

SteppedWpm_nocap(start_wpm, peak_wpm, ramp_words, i) ==
  LET words_per_step == Max(1, ramp_words \div num_steps)
      step == i \div words_per_step
  IN <<start_wpm * num_steps + (peak_wpm - start_wpm) * step, num_steps>>

\* stepped: wpm = start_wpm + wpm_step * min(i // words_per_step, num_steps)
SteppedWpm(start_wpm, peak_wpm, ramp_words, i) ==
  LET words_per_step == Max(1, ramp_words \div num_steps)
      step == Min(i \div words_per_step, num_steps)
  IN <<start_wpm * num_steps + (peak_wpm - start_wpm) * step, num_steps>>

Returns(v) == [raised |-> FALSE, value |-> v]
Raises(e)  == [raised |-> TRUE, error |-> e]

\* The if / elif chain over ramp_style, ramp_words already clamped; the
\* list index i + 1 holds the wpm of word i.
RampSchedule(start_wpm, peak_wpm, total_words, ramp_words, ramp_style) ==
  CASE ramp_style = "smooth" ->
         Returns([n \in 1..total_words |->
                    IF n - 1 < ramp_words
                    THEN SmoothWpm(start_wpm, peak_wpm, ramp_words, n - 1)
                    ELSE Wpm(peak_wpm)])
    [] ramp_style = "linear" ->
         Returns([n \in 1..total_words |->
                    IF n - 1 < ramp_words
                    THEN LinearWpm(start_wpm, peak_wpm, ramp_words, n - 1)
                    ELSE Wpm(peak_wpm)])
    [] ramp_style = "stepped" ->
         Returns([n \in 1..total_words |->
                    IF n - 1 < ramp_words
                    THEN SteppedWpm(start_wpm, peak_wpm, ramp_words, n - 1)
                    ELSE Wpm(peak_wpm)])
    [] OTHER -> Raises("ValueError")

DefaultRampWords_rounded(total_words) == Max(20, (total_words + 5) \div 10)

\* max(20, int(total_words * 0.1)): int() truncates, and the product of a
\* count and 0.1 truncates to the count's whole tenth.
DefaultRampWords(total_words) == Max(20, total_words \div 10)

create_wpm_schedule_noearlyreturn(start_wpm, peak_wpm, total_words, ramp_words, ramp_style) ==
  RampSchedule(start_wpm, peak_wpm, total_words,
               Min(IF ramp_words = None THEN DefaultRampWords(total_words)
                   ELSE ramp_words[1], total_words),
               ramp_style)

create_wpm_schedule(start_wpm, peak_wpm, total_words, ramp_words, ramp_style) ==
  IF total_words <= 1 THEN Returns(<<Wpm(start_wpm)>>)
  ELSE RampSchedule(start_wpm, peak_wpm, total_words,
                    Min(IF ramp_words = None THEN DefaultRampWords(total_words)
                        ELSE ramp_words[1], total_words),
                    ramp_style)

\* --------------------------------------- chunked generation (Video Assembler)
\* Words i.. of the sequence, given the chunk being filled (the indices of
\* its words) and its duration so far: a word that would carry a chunk that
\* has words past chunk_duration starts the next chunk.
RECURSIVE ChunkFrom_overfill(_, _, _, _, _)
ChunkFrom_overfill(durations, chunk_duration, i, chunk, seconds) ==
  IF i > Len(durations) THEN (IF chunk = << >> THEN << >> ELSE <<chunk>>)
  ELSE IF chunk # << >> /\ seconds + durations[i] > chunk_duration
       THEN <<Append(chunk, i)>>
            \o ChunkFrom_overfill(durations, chunk_duration, i + 1, << >>, 0)
       ELSE ChunkFrom_overfill(durations, chunk_duration, i + 1, Append(chunk, i),
                               seconds + durations[i])

RECURSIVE ChunkFrom(_, _, _, _, _)
ChunkFrom(durations, chunk_duration, i, chunk, seconds) ==
  IF i > Len(durations) THEN (IF chunk = << >> THEN << >> ELSE <<chunk>>)
  ELSE IF chunk # << >> /\ seconds + durations[i] > chunk_duration
       THEN <<chunk>> \o ChunkFrom(durations, chunk_duration, i + 1, <<i>>, durations[i])
       ELSE ChunkFrom(durations, chunk_duration, i + 1, Append(chunk, i),
                      seconds + durations[i])

generate_chunked_videos_overfill(durations, chunk_duration) ==
  ChunkFrom_overfill(durations, chunk_duration, 1, << >>, 0)

\* generate_chunked_videos: the word indices of each file it emits, in file
\* order, for words of the given display durations.
generate_chunked_videos(durations, chunk_duration) ==
  ChunkFrom(durations, chunk_duration, 1, << >>, 0)

\* ------------------------------------------------ calls of the functions
\* The arguments tried.
WpmsTried  == {200, 600}
StylesTried == RampStyle \cup {"bogus"}
RampWordsTried == {None} \cup {Some(r) : r \in 0..MaxRampWords}
DurationsTried == UNION { [1..n -> 1..MaxWordTicks] : n \in 1..MaxChunkWords }

WordCalls == { [fn |-> "WordFrame", word |-> w, returned |-> FALSE] : w \in Tokens }
ScheduleCalls ==
  { [fn |-> "create_wpm_schedule", start_wpm |-> s, peak_wpm |-> p, total_words |-> t,
     ramp_words |-> r, ramp_style |-> y, returned |-> FALSE] :
       s \in WpmsTried, p \in WpmsTried, t \in 0..MaxTotalWords,
       r \in RampWordsTried, y \in StylesTried }
ChunkCalls ==
  { [fn |-> "generate_chunked_videos", durations |-> d, chunk_duration |-> c,
     returned |-> FALSE] : d \in DurationsTried, c \in 2..MaxChunkTicks }

service == <<nextId, pending, audit, lastSubmit, record, lockfile, upload, outdir, outfiles,
             pc, held, jd, wparams, words, files, total, err, cjob, cres,
             prev, seen, events, raisedAt>>

InitCalc ==
  /\ Setup /\ audit = FALSE
  /\ calc \in WordCalls \cup ScheduleCalls \cup ChunkCalls

Return(out) ==
  calc' = [f \in (DOMAIN calc) \cup {"out"} |->
             CASE f = "out" -> out
               [] f = "returned" -> TRUE
               [] OTHER -> calc[f]]

CallWordFrame ==
  /\ calc.fn = "WordFrame" /\ ~calc.returned
  /\ Return(WordFrame(calc.word))
  /\ UNCHANGED service

CallSchedule ==
  /\ calc.fn = "create_wpm_schedule" /\ ~calc.returned
  /\ Return(create_wpm_schedule(calc.start_wpm, calc.peak_wpm, calc.total_words,
                                calc.ramp_words, calc.ramp_style))
  /\ UNCHANGED service

CallChunks ==
  /\ calc.fn = "generate_chunked_videos" /\ ~calc.returned
  /\ Return(generate_chunked_videos(calc.durations, calc.chunk_duration))
  /\ UNCHANGED service

NextCalc ==
  \/ CallWordFrame
  \/ CallSchedule
  \/ CallChunks

SpecCalc == InitCalc /\ [][NextCalc]_vars

\* ================================================================ claims
\* What the file of job j shows is what was last written for j.
FileShowsLastWrite == \A j \in Jobs : IsJson(record[j]) => record[j] = prev[j]

StatusPath == { <<PENDING, PROCESSING>>, <<PROCESSING, COMPLETED>>,
                <<PROCESSING, FAILED>> }

\* C1: every write of a job's record keeps its status or moves it along
\* pending -> processing -> completed | failed; the first write stores
\* pending, and no write leaves completed or failed, returns to pending, or
\* goes from pending straight to a terminal status.
C1_StatusPath ==
  /\ [][\A j \in Jobs :
          /\ (prev[j] = Absent /\ prev'[j] # Absent) => prev'[j].status = PENDING
          /\ (prev[j] # Absent /\ prev'[j].status # prev[j].status)
                => <<prev[j].status, prev'[j].status>> \in StatusPath]_vars
  /\ []FileShowsLastWrite
C1_Witness ==
  \E j \in Jobs : /\ IsJson(record[j]) /\ record[j].status = COMPLETED
                  /\ seen[j] = {PENDING, PROCESSING, COMPLETED}

\* ---- C2
\* p has read the record inside update_job or delete_job and has further
\* accesses to make: update_job still has to write, delete_job to remove.
Mid(p) ==
  \/ pc[p].site \in {"mark", "upd10", "upd20", "complete", "except"}
       /\ pc[p].step \in {"open", "write"}
  \/ pc[p].site = "delete_job"
       /\ pc[p].step \in {"up_exists", "up_unlink", "out_exists", "rmtree", "rmdir",
                          "rec_unlink", "lk_exists", "lk_unlink"}
\* The step p is about to take reads, writes or removes a stored file.
Accessing(p) ==
  pc[p].step \in {"read", "open", "write", "up_unlink", "rmtree", "rmdir",
                  "rec_unlink", "lk_unlink"}

\* C2: while one JobManager operation on a job id is between its first and
\* its last access to the job's stored files (the read of the record and the
\* write or the removals that follow it), no other operation for the same id
\* reads, writes or removes them.
C2_NoInterleaving ==
  [][\A p, q \in Procs :
       (p # q /\ LockTarget(p) = LockTarget(q) /\ Mid(p) /\ Accessing(q))
          => pc'[q] = pc[q]]_vars

\* C3: a stored record that is completed was stored as processing before,
\* and a stored record that is failed has an error_message and a
\* completed_at.
C3_TerminalRecords ==
  \A j \in Jobs :
     IsJson(record[j]) =>
        /\ record[j].status = COMPLETED => PROCESSING \in seen[j]
        /\ record[j].status = FAILED =>
              (record[j].error_message # None /\ record[j].completed_at # None)
C3_Witness ==
  \E j \in Jobs : /\ IsJson(record[j]) /\ record[j].status = FAILED
                  /\ record[j].error_message = Some("ExtractionError")
                  /\ PROCESSING \in seen[j]

\* C4: at the step in which delete_job returns True, the record, the
\* upload and the output directory of its job are all absent.
C4_DeleteRemovesAll ==
  [][\A c \in Clients :
       (cres[c] # "true" /\ cres'[c] = "true")
          => /\ record'[cjob[c]] = Absent
             /\ ~upload'[cjob[c]]
             /\ ~outdir'[cjob[c]]]_vars

\* C5: the first step of a delete_job whose job has no record file ends
\* the call: it returns False, raises nothing and leaves every stored file
\* as it was.
C5_DeleteAbsent ==
  [][\A c \in Clients :
       (/\ pc[C(c)] = At("delete_job", "d_exists")
        /\ record[cjob[c]] = Absent
        /\ pc'[C(c)] # pc[C(c)])
          => /\ pc'[C(c)] = Idle
             /\ cres'[c] = "false"
             /\ UNCHANGED store]_vars
\* a delete_job of a job that was created and has been deleted returned False
C5_Witness ==
  \E c \in Clients : /\ pc[C(c)] = Idle /\ cres[c] = "false"
                     /\ prev[cjob[c]] # Absent /\ record[cjob[c]] = Absent
                     /\ ~lockfile[cjob[c]]

\* ---- C6
ExtensionAllowed(filename) == Lower(filename.suffix) \in {".pdf", ".epub", ".txt"}
ParamsInRange(p) ==
  /\ p.start_wpm >= 50 /\ p.start_wpm <= 1000
  /\ p.peak_wpm >= 100 /\ p.peak_wpm <= 2000
  /\ p.ramp_style \in {"smooth", "linear", "stepped"}
  /\ p.chunk_duration = None \/ (p.chunk_duration[1] >= 5 /\ p.chunk_duration[1] <= 300)

\* C6: the step that answers a Submit whose file extension is not allowed
\* or whose parameters fail validation answers 400 and changes nothing
\* else: no id is minted, no upload stored, no record written, no worker
\* queued.  And every id minted, upload stored, record written and worker
\* queued comes from a Submit that passed both tests.
Invalid(req) ==
  ~(/\ ExtensionAllowed(req.filename)
    /\ req.raw.json
    /\ ParamsInRange(Merge(DefaultParams, req.raw.set)))
C6_RejectNoSideEffects ==
  [][/\ (lastSubmit' # lastSubmit /\ Invalid(lastSubmit'[1]))
          => /\ lastSubmit'[1].status = 400
             /\ UNCHANGED <<nextId, pending, store, pc, held, jd, cjob, cres>>
             /\ UNCHANGED <<wlocal, hist>>
     /\ nextId' # nextId
          => (pending' # None /\ ~Invalid(pending'[1]) /\ lastSubmit' = Some(
                 [filename |-> pending'[1].filename, raw |-> pending'[1].raw, status |-> 200]))
     /\ \A j \in Jobs :
          /\ (upload'[j] /\ ~upload[j])
                => (pending' # None /\ pending'[1].id = j /\ nextId' = j /\ nextId = j - 1)
          /\ ((prev[j] = Absent /\ prev'[j] # Absent) \/ (pc[W(j)] = Idle /\ pc'[W(j)] # Idle))
                => /\ pending # None /\ pending[1].id = j
                   /\ ExtensionAllowed(prev'[j].filename)
                   /\ ParamsInRange(prev'[j].params)]_vars
\* a Submit of doc.exe was answered 400 while job 1 was being processed
C6_Witness ==
  /\ lastSubmit # None
  /\ lastSubmit[1].filename.suffix = ".exe" /\ lastSubmit[1].status = 400
  /\ \E j \in Jobs : /\ IsJson(record[j]) /\ record[j].status = PROCESSING
                     /\ record[j].filename.suffix = ".PDF"

\* ---- C7
Stages == {"extract", "generate"}
\* a pipeline stage of worker j raised
StageRaised(j) == raisedAt[j] > 0 /\ events[j][raisedAt[j]] \in Stages
AfterRaise(j) == SubSeq(events[j], raisedAt[j] + 1, Len(events[j]))
Times(j, e) == Cardinality({i \in 1..Len(events[j]) : events[j][i] = e})

\* C7: once a pipeline stage has raised, the worker runs no further stage
\* and does not run the failed one again; it issues exactly one more
\* update_job, the one of the except block, whose write stores status
\* failed, the failure's text as error_message and a completed_at; and its
\* steps leave the output directory and the files in it as they are.
C7_FailOnce ==
  /\ [](\A j \in Jobs :
          /\ \A e \in Stages : Times(j, e) <= 1
          /\ StageRaised(j) =>
               /\ Site(j) \in {"except", "done", "crashed"}
               /\ AfterRaise(j) \in {<< >>, <<"except">>}
               /\ Site(j) = "except" => (Step(j) = "exists" <=> AfterRaise(j) = << >>)
               /\ Site(j) # "except" => AfterRaise(j) = <<"except">>
               /\ (Site(j) = "done" /\ IsJson(record[j])) =>
                     /\ record[j].status = FAILED
                     /\ record[j].error_message = err[j]
                     /\ record[j].completed_at # None)
  /\ [][\A j \in Jobs :
          (StageRaised(j) /\ pc'[W(j)] # pc[W(j)])
             => /\ outdir'[j] = outdir[j] /\ outfiles'[j] = outfiles[j]
                /\ prev'[j] # prev[j] =>
                     prev'[j] = Merge(prev[j], [status |-> FAILED,
                                                completed_at |-> Some(Now),
                                                error_message |-> err[j],
                                                current_step |-> "Failed"])]_vars
C7_Witness ==
  \E j \in Jobs : /\ StageRaised(j) /\ Site(j) = "done"
                  /\ events[j][raisedAt[j]] = "generate"
                  /\ IsJson(record[j]) /\ record[j].status = FAILED
                  /\ record[j].error_message = Some("EncodingError")
                  /\ outfiles[j] # {}

\* ---- C8
\* every stage of worker j returned
StagesSucceeded(j) == Times(j, "generate") = 1 /\ ~StageRaised(j)
\* the duration loop of worker j was cut short by an exception
MeasureFailed(j) ==
  StagesSucceeded(j) /\ Site(j) # "measure" /\ total[j] # Len(files[j]) * ClipSeconds

\* C8: once every stage has succeeded the worker never stores failed, and
\* the record it completes after a failed duration measurement has
\* video_duration_seconds unset.
C8_MeasureBestEffort ==
  \A j \in Jobs :
     StagesSucceeded(j) =>
        /\ FAILED \notin seen[j]
        /\ (MeasureFailed(j) /\ IsJson(record[j]) /\ record[j].status = COMPLETED)
              => record[j].video_duration_seconds = None
\* the part of C8 the worker keeps: a failed measurement never fails the job
C8_NeverDowngrades ==
  \A j \in Jobs :
     StagesSucceeded(j) =>
        /\ FAILED \notin seen[j]
        /\ (Site(j) = "done" /\ IsJson(record[j])) => record[j].status = COMPLETED

\* C9: each write of a job's record stores a progress_percent within
\* 0..100 that is no smaller than the one stored before it.
C9_ProgressMonotonic ==
  /\ [][\A j \in Jobs :
          /\ prev'[j] # Absent => prev'[j].progress_percent \in 0..100
          /\ (prev[j] # Absent /\ prev'[j] # Absent)
                => prev'[j].progress_percent >= prev[j].progress_percent]_vars
  /\ [](\A j \in Jobs : IsJson(record[j]) => record[j].progress_percent = prev[j].progress_percent)
C9_Witness ==
  \E j \in Jobs : /\ IsJson(record[j]) /\ record[j].status = FAILED
                  /\ record[j].progress_percent = 20

\* C10: a stored record with a non-empty output_files is completed; pending,
\* processing and failed records have an empty output_files.
C10_OutputsOnlyCompleted ==
  \A j \in Jobs :
     IsJson(record[j]) =>
        /\ record[j].output_files # << >> => record[j].status = COMPLETED
        /\ prev[j].output_files # << >> => prev[j].status = COMPLETED
C10_Witness ==
  \E j \in Jobs : /\ IsJson(record[j]) /\ record[j].status = COMPLETED
                  /\ Len(record[j].output_files) = MaxChunks
                  /\ FAILED \notin seen[j]

\* C11: a get_job that has taken the lock and reads the record file always
\* finds a complete record there and returns it: it never raises, and never
\* meets a missing or a partly written file, whatever update_job or
\* delete_job calls for the same id run beside it.
C11_GetJobTotal ==
  [][\A p \in Procs :
       (pc[p] = At("get_job", "read") /\ pc'[p] # pc[p])
          => /\ IsJson(record[LockTarget(p)])
             /\ jd'[p] = ToResponse(record[LockTarget(p)])]_vars

\* ---- C15
Immutable == {"id", "filename", "upload_path", "params", "created_at"}

\* C15: every write of a job's record after the first stores the id, the
\* filename, the upload location, the params and the created_at that the
\* write before it stored, and the record file shows them.
C15_ParamsImmutable ==
  /\ [][\A j \in Jobs :
          (prev[j] # Absent /\ prev'[j] # prev[j])
             => \A f \in Immutable : prev'[j][f] = prev[j][f]]_vars
  /\ [](\A j \in Jobs :
          IsJson(record[j]) => \A f \in Immutable : record[j][f] = prev[j][f])
C15_Witness ==
  \E j \in Jobs : /\ IsJson(record[j]) /\ record[j].status = COMPLETED
                  /\ record[j].params = video_params([json |-> TRUE,
                                                      set |-> [chunk_duration |-> Some(10)]])
                  /\ record[j].created_at = Now
                  /\ record[j].id = j

\* C18: once delete_job has returned True for a job id and its record file
\* is gone, no step of the still-running worker creates a record file for
\* that id again.
C18_DeletedStaysDeleted ==
  [][\A c \in Callers :
       (pc[C(c)] = Idle /\ cres[c] = "true" /\ record[cjob[c]] = Absent
          /\ pc'[C(c)] = Idle)
          => record'[cjob[c]] = Absent]_vars


\* ---- C19
Terminal(j) == IsJson(record[j]) /\ record[j].status \in {COMPLETED, FAILED}

\* C19: under fair scheduling, a job whose worker has been queued gets a
\* record with status completed or failed, unless its record is deleted
\* (a deleted record shows as an absent record file).
C19_EventuallyTerminal ==
  \A j \in Jobs : (pc[W(j)] # Idle) ~> (Terminal(j) \/ record[j] = Absent)
\* the worker has ended after a generation that found no words, and the
\* record, never deleted, is failed
C19_Witness ==
  \E j \in Jobs : /\ Site(j) = "done" /\ Terminal(j)
                  /\ record[j].error_message = Some("No words found in text")
                  /\ upload[j] /\ lockfile[j]


\* ---- C20
Returned(c) == pc[C(c)] = Idle /\ cres[c] # "-"

\* C20: when two delete_job calls for the same job id, both begun while its
\* record existed, have returned, one of them has returned True and the
\* other False, and neither has raised.
C20_OneDeleteWins ==
  \A c, d \in Callers :
     (c # d /\ cjob[c] = cjob[d] /\ Returned(c) /\ Returned(d))
        => {cres[c], cres[d]} = {"true", "false"}


\* ---- C12
\* C12: the orp_index of the WordFrame built for a non-empty word is an
\* index into the word: 0 <= orp_index <= len(word) - 1.
C12_OrpInRange ==
  (calc.fn = "WordFrame" /\ calc.returned)
     => (calc.out.orp_index >= 0 /\ calc.out.orp_index <= Len(calc.word) - 1)

\* ---- C13
ScheduleReturned == calc.fn = "create_wpm_schedule" /\ calc.returned

\* C13: for start_wpm <= peak_wpm and total_words > 1, the schedule that
\* create_wpm_schedule returns under smooth, linear and stepped has one wpm
\* per word, never falls from one word to the next, and is peak_wpm at every
\* word index from the effective ramp_words (the given or default
\* ramp_words, clamped to total_words) on.
C13_ScheduleRises ==
  (/\ ScheduleReturned
   /\ calc.start_wpm <= calc.peak_wpm
   /\ calc.total_words > 1
   /\ calc.ramp_style \in {"smooth", "linear", "stepped"})
     => /\ ~calc.out.raised
        /\ LET schedule == calc.out.value
               given == IF calc.ramp_words = None
                        THEN (IF calc.total_words \div 10 > 20
                              THEN calc.total_words \div 10 ELSE 20)
                        ELSE calc.ramp_words[1]
               effective == IF given < calc.total_words THEN given ELSE calc.total_words
           IN /\ Len(schedule) = calc.total_words
              /\ \A n \in 1..(calc.total_words - 1) :
                    schedule[n][1] * schedule[n + 1][2] <= schedule[n + 1][1] * schedule[n][2]
              /\ \A n \in 1..calc.total_words :
                    n - 1 >= effective => schedule[n][1] = calc.peak_wpm * schedule[n][2]
\* a stepped ramp over 8 of 10 words whose last two ramp words are at the peak
C13_Witness ==
  /\ ScheduleReturned
  /\ calc.ramp_style = "stepped" /\ calc.ramp_words = Some(8) /\ calc.total_words = 10
  /\ calc.start_wpm = 200 /\ calc.peak_wpm = 600
  /\ ~calc.out.raised
  /\ Same(calc.out.value[6], <<1600, 3>>)
  /\ Same(calc.out.value[7], Wpm(600))
  /\ Same(calc.out.value[8], Wpm(600))

\* ---- C14
RECURSIVE Concat(_)
Concat(seqs) == IF seqs = << >> THEN << >> ELSE Head(seqs) \o Concat(Tail(seqs))
RECURSIVE Seconds(_, _)
Seconds(durations, chunk) ==
  IF chunk = << >> THEN 0 ELSE durations[Head(chunk)] + Seconds(durations, Tail(chunk))

\* C14: the chunks of a chunked generation, concatenated in file order, are
\* the word sequence itself (every word once, in order); no chunk is empty;
\* and a chunk lasts longer than chunk_duration only if it holds a single
\* word, which is not split.
C14_ChunksPartition ==
  (calc.fn = "generate_chunked_videos" /\ calc.returned)
     => /\ Concat(calc.out) = [i \in 1..Len(calc.durations) |-> i]
        /\ \A k \in 1..Len(calc.out) :
              /\ calc.out[k] # << >>
              /\ Len(calc.out[k]) > 1
                    => Seconds(calc.durations, calc.out[k]) <= calc.chunk_duration
C14_Witness ==
  /\ calc.fn = "generate_chunked_videos" /\ calc.returned
  /\ calc.durations = <<3, 1, 1, 3>> /\ calc.chunk_duration = 2
  /\ calc.out = << <<1>>, <<2, 3>>, <<4>> >>

\* ---- C16
\* the words of a schedule that are below the peak: the ramp
RampLength(schedule, peak_wpm) ==
  Cardinality({n \in 1..Len(schedule) : schedule[n][1] # peak_wpm * schedule[n][2]})
\* round(0.1 * n): to the nearest whole number, a half to the even one
RoundTenth(n) ==
  LET q == n \div 10
      r == n % 10
  IN IF r < 5 THEN q
     ELSE IF r > 5 THEN q + 1
     ELSE IF q % 2 = 0 THEN q ELSE q + 1
DefaultRamp == ScheduleReturned /\ calc.ramp_words = None /\ calc.total_words > 1
                 /\ calc.ramp_style \in {"smooth", "linear"}
                 /\ calc.start_wpm < calc.peak_wpm

\* C16: without ramp_words and with total_words > 1, the schedule ramps
\* over min(max(20, round(0.1 * total_words)), total_words) words.
C16_RoundedTenth ==
  DefaultRamp =>
     /\ ~calc.out.raised
     /\ LET tenth == RoundTenth(calc.total_words)
            ramp == IF tenth > 20 THEN tenth ELSE 20
        IN RampLength(calc.out.value, calc.peak_wpm)
              = (IF ramp < calc.total_words THEN ramp ELSE calc.total_words)
\* C16 amended: without ramp_words and with total_words > 1, the schedule
\* ramps over min(max(20, total_words div 10), total_words) words: the
\* tenth is truncated.
C16_TruncatedTenth ==
  DefaultRamp =>
     /\ ~calc.out.raised
     /\ LET tenth == calc.total_words \div 10
            ramp == IF tenth > 20 THEN tenth ELSE 20
        IN RampLength(calc.out.value, calc.peak_wpm)
              = (IF ramp < calc.total_words THEN ramp ELSE calc.total_words)
\* 215 words ramp over 21 words
C16_Witness ==
  /\ DefaultRamp /\ calc.total_words = 215 /\ calc.ramp_style = "linear"
  /\ RampLength(calc.out.value, calc.peak_wpm) = 21
  /\ ~Same(calc.out.value[21], Wpm(calc.peak_wpm))
  /\ Same(calc.out.value[22], Wpm(calc.peak_wpm))

\* ---- C17
UnknownStyle == ScheduleReturned /\ calc.ramp_style \notin {"smooth", "linear", "stepped"}

\* C17: create_wpm_schedule with a ramp_style other than smooth, linear or
\* stepped raises and returns no schedule, whatever total_words is.
C17_UnknownStyleFails ==
  UnknownStyle => (calc.out.raised /\ calc.out.error = "ValueError")
\* C17 amended: with such a ramp_style create_wpm_schedule raises
\* ValueError when total_words > 1, and returns [start_wpm] when
\* total_words <= 1.
C17_UnknownStyleFailsPastOneWord ==
  UnknownStyle =>
     IF calc.total_words > 1
     THEN calc.out.raised /\ calc.out.error = "ValueError"
     ELSE ~calc.out.raised /\ calc.out.value = <<Wpm(calc.start_wpm)>>
C17_Witness ==
  /\ UnknownStyle /\ calc.total_words = 2 /\ calc.ramp_words = None
  /\ calc.out.raised /\ calc.out.error = "ValueError"

====
